---- MODULE Spec2Model ----
(***************************************************************************)
(* Finalizer storage operations (storage/src/lib.rs).                      *)
(*                                                                         *)
(* The store is two Postgres tables, `withdrawals` and `l2_blocks`.  Every *)
(* public function of the crate issues one SQL statement; the three        *)
(* *_new_batch functions wrap theirs in an explicit transaction.  The      *)
(* tables are modelled as sets of rows, each SQL statement as an operator  *)
(* on those sets, and each function as an action.                          *)
(***************************************************************************)
EXTENDS Integers, Sequences, FiniteSets, TLC

VARIABLES
    withdrawals,      \* rows of table `withdrawals`, UNIQUE(tx_hash, event_index_in_tx)
    l2_blocks,        \* rows of table `l2_blocks`, PRIMARY KEY l2_block_number
    txn,              \* per connection: the *_new_batch transaction in flight
    ret,              \* the last completed call: its name, arguments and result
    finalize_matched  \* history: keys some finalize call has matched so far

vars == <<withdrawals, l2_blocks, txn, ret, finalize_matched>>

---------------------------------------------------------------------------
\* Bounds of the model.

\* L2 block numbers range over 1..MaxBlock.
MaxBlock == 2

\* Longest slice passed to add_withdrawals / update_withdrawals_to_finalized.
MaxBatch == 2

\* The row cap of unfinalized_withdrawals (LIMIT 30 at lib.rs:283), scaled
\* down so that a ledger of a few rows exceeds it.
Limit == 2

\* Width of the scaled-down model of i64/u64 (64 bits in the program).
I64Bits == 7

\* Most rows in the ledger a drain starts from.
MaxBacklog == 4

---------------------------------------------------------------------------
\* Value domains.

TxHashes == {"h1", "h2"}
Indices == {0, 1}
L1Blocks == {50, 51}
Conns == {"c1", "c2"}

\* A nullable bigint column holds NULL or one number.
NULL == << >>
NotNull(v) == <<v>>

\* Option<T>: None is the empty sequence, Some(x) the one-element sequence.
None == << >>
Some(x) == <<x>>

Pow2(n) == 2 ^ n

\* `x as i64` for an unsigned x (lib.rs:42, 54, 196): two's complement wrap.
AsI64(x) == IF x >= Pow2(I64Bits - 1) THEN x - Pow2(I64Bits) ELSE x

\* `x as u64` for a signed x (lib.rs:255, 271, 292).
AsU64(x) == IF x < 0 THEN x + Pow2(I64Bits) ELSE x

Min(a, b) == IF a <= b THEN a ELSE b

\* All sequences over S of length at most n.
SeqsUpTo(S, n) == UNION {[1..k -> S] : k \in 0..n}

Range(s) == {s[i] : i \in DOMAIN s}

---------------------------------------------------------------------------
\* Numeric codec (mod utils): U256 <-> the NUMERIC column's BigDecimal.
\* A decimal is digits * 10^(-scale).

\* Width of the scaled-down model of U256 (256 bits in the program).
U256Bits == 8

ConversionError == "ConversionError"

U256ToBigDecimal(v) == [digits |-> v, scale |-> 0]

\* The decimal is a non-negative integer that fits the U256.
IsU256(d) == d.scale = 0 /\ d.digits >= 0 /\ d.digits < Pow2(U256Bits)

BigDecimalToU256(d) == IF IsU256(d) THEN d.digits ELSE ConversionError

---------------------------------------------------------------------------
\* Table `withdrawals`.

\* struct StoredWithdrawal { event: WithdrawalEvent, index_in_tx, is_finalized }
StoredWithdrawal(h, b, t, a, i, f) ==
    [event |-> [tx_hash |-> h, block_number |-> b, token |-> t, amount |-> a],
     index_in_tx |-> i,
     is_finalized |-> f]

\* The six arrays built from `events`, read back row-wise by UNNEST.
UnnestEvents(events) ==
    [k \in DOMAIN events |->
        [tx_hash |-> events[k].event.tx_hash,
         l2_block_number |-> AsI64(events[k].event.block_number),
         token |-> events[k].event.token,
         amount |-> U256ToBigDecimal(events[k].event.amount),
         event_index_in_tx |-> events[k].index_in_tx,
         is_finalized |-> events[k].is_finalized]]

\* The arbiter of ON CONFLICT (tx_hash, event_index_in_tx).
SameKey(w, r) ==
    /\ w.tx_hash = r.tx_hash
    /\ w.event_index_in_tx = r.event_index_in_tx

\* (mutant) ON CONFLICT ... DO UPDATE SET every column = EXCLUDED's.
OnConflictWithdrawalUpdate(W, r) == {w \in W : ~SameKey(w, r)} \cup {r}

\* What the statement does with one proposed row whose key is taken:
\* ON CONFLICT ... DO NOTHING.
OnConflictWithdrawal(W, r) == W

\* INSERT INTO withdrawals ... SELECT ... FROM UNNEST(...) ON CONFLICT DO NOTHING:
\* the proposed rows are taken in array order; one whose key is already in the
\* table (stored before, or inserted earlier by this same statement) is skipped.
RECURSIVE InsertWithdrawals(_, _)
InsertWithdrawals(W, rows) ==
    IF rows = << >> THEN W
    ELSE LET r == Head(rows)
             W1 == IF \E w \in W : SameKey(w, r)
                   THEN OnConflictWithdrawal(W, r)
                   ELSE W \cup {r}
         IN InsertWithdrawals(W1, Tail(rows))

\* History: the last proposed row the statement skipped, if any.
LastSkipped(W, rows) ==
    LET skipped == {i \in DOMAIN rows :
                       \/ \E w \in W : SameKey(w, rows[i])
                       \/ \E j \in 1..(i - 1) : SameKey(rows[j], rows[i])}
    IN IF skipped = {} THEN None
       ELSE Some(rows[CHOOSE i \in skipped : \A j \in skipped : j <= i])

\* add_withdrawals(conn, events)
AddWithdrawals(events) ==
    LET rows == UnnestEvents(events) IN
    /\ withdrawals' = InsertWithdrawals(withdrawals, rows)
    /\ ret' = [op |-> "add_withdrawals", val |-> "Ok",
               skipped |-> LastSkipped(withdrawals, rows)]
    /\ UNCHANGED <<l2_blocks, txn, finalize_matched>>

\* (mutant) the two arrays unnested as separate FROM items: a cross join.
UnnestKeysCross(tx_hashes, event_indices_in_tx) ==
    {[tx_hash |-> tx_hashes[k], event_index_in_tx |-> event_indices_in_tx[j]] :
        k \in DOMAIN tx_hashes, j \in DOMAIN event_indices_in_tx}

\* The derived table u of the UPDATE: two UNNESTs in one select list advance
\* in lockstep, so row k of u pairs tx_hashes[k] with event_indices_in_tx[k].
UnnestKeys(tx_hashes, event_indices_in_tx) ==
    {[tx_hash |-> tx_hashes[k], event_index_in_tx |-> event_indices_in_tx[k]] :
        k \in DOMAIN tx_hashes}

\* (mutant) SET is_finalized = NOT is_finalized.
SetFinalizedToggle(W, u) ==
    {IF \E x \in u : SameKey(w, x) THEN [w EXCEPT !.is_finalized = ~@] ELSE w :
        w \in W}

\* UPDATE withdrawals SET is_finalized = true FROM u
\* WHERE withdrawals.tx_hash = u.tx_hash
\*   AND withdrawals.event_index_in_tx = u.event_index_in_tx
SetFinalized(W, u) ==
    {IF \E x \in u : SameKey(w, x) THEN [w EXCEPT !.is_finalized = TRUE] ELSE w :
        w \in W}

\* update_withdrawals_to_finalized(conn, tx_hashes_and_indices_in_tx)
UpdateWithdrawalsToFinalized(keys) ==
    LET tx_hashes == [k \in DOMAIN keys |-> keys[k][1]]
        event_indices_in_tx == [k \in DOMAIN keys |-> keys[k][2]]
        u == UnnestKeys(tx_hashes, event_indices_in_tx)
    IN
    /\ withdrawals' = SetFinalized(withdrawals, u)
    /\ ret' = [op |-> "update_withdrawals_to_finalized", args |-> keys, val |-> "Ok"]
    /\ finalize_matched' = finalize_matched \cup
          {<<w.tx_hash, w.event_index_in_tx>> : w \in {x \in withdrawals :
              \E k \in DOMAIN keys :
                  keys[k] = <<x.tx_hash, x.event_index_in_tx>>}}
    /\ UNCHANGED <<l2_blocks, txn>>

\* (mutant) the WHERE clause left out.
WhereAnything(W) == W

\* WHERE NOT is_finalized
WhereNotFinalized(W) == {w \in W : ~w.is_finalized}

\* ORDER BY l2_block_number ASC: every arrangement of the rows in
\* non-decreasing l2_block_number; rows with equal numbers come in any order.
OrderByL2Block(S) ==
    {s \in [1..Cardinality(S) -> S] :
        /\ \A i, j \in DOMAIN s : i # j => s[i] # s[j]
        /\ \A i, j \in DOMAIN s : i < j => s[i].l2_block_number <= s[j].l2_block_number}

\* (mutant) the cap off by one.
TakeOneMore(s, n) == SubSeq(s, 1, Min(n + 1, Len(s)))

\* LIMIT
Take(s, n) == SubSeq(s, 1, Min(n, Len(s)))

\* (mutant) the amount read back through a 64-bit integer.
RowToStoredAmountAsU64(r) ==
    StoredWithdrawal(r.tx_hash, AsU64(r.l2_block_number), r.token,
                     r.amount.digits % Pow2(I64Bits), r.event_index_in_tx,
                     r.is_finalized)

\* .map(|r| StoredWithdrawal { ... })
RowToStored(r) ==
    StoredWithdrawal(r.tx_hash, AsU64(r.l2_block_number), r.token,
                     BigDecimalToU256(r.amount), r.event_index_in_tx, r.is_finalized)

\* unfinalized_withdrawals(conn).  The closure of .map() puts the result of
\* bigdecimal_to_u256 into the U256 field as it is: it has no `?` and builds
\* no Result, so a conversion that fails cannot become the Err of this call;
\* the call unwinds (panics) and returns nothing.
UnfinalizedWithdrawals ==
    /\ \E ordered \in OrderByL2Block(WhereNotFinalized(withdrawals)) :
          LET fetched == Take(ordered, Limit) IN
          ret' = IF \A k \in DOMAIN fetched : IsU256(fetched[k].amount)
                 THEN [op |-> "unfinalized_withdrawals",
                       val |-> [k \in DOMAIN fetched |-> RowToStored(fetched[k])]]
                 ELSE [op |-> "unfinalized_withdrawals", panicked |-> TRUE]
    /\ UNCHANGED <<withdrawals, l2_blocks, txn, finalize_matched>>

---------------------------------------------------------------------------
\* Table `l2_blocks`.

CommitColumn == "commit_l1_block_number"
VerifyColumn == "verify_l1_block_number"
ExecuteColumn == "execute_l1_block_number"
PhaseColumns == {CommitColumn, VerifyColumn, ExecuteColumn}

\* (batch_start as i64..=batch_end as i64).collect(): empty when start > end.
BatchRange(batch_start, batch_end) == AsI64(batch_start)..AsI64(batch_end)

\* (mutant) the new row carries the value in every phase column.
ProposedBlockAllColumns(b, column, v) ==
    [c \in PhaseColumns \cup {"l2_block_number"} |->
        IF c = "l2_block_number" THEN b ELSE NotNull(v)]

\* The row INSERT INTO l2_blocks (l2_block_number, <column>) proposes: the
\* columns it does not name default to NULL.
ProposedBlock(b, column, v) ==
    [c \in PhaseColumns \cup {"l2_block_number"} |->
        IF c = "l2_block_number" THEN b
        ELSE IF c = column THEN NotNull(v)
        ELSE NULL]

\* (mutant) DO UPDATE SET <column> = GREATEST(<column>, $2)
OnConflictBlockMax(existing, column, v) ==
    IF existing[column] # NULL /\ existing[column][1] > v
    THEN existing
    ELSE [existing EXCEPT ![column] = NotNull(v)]

\* ON CONFLICT (l2_block_number) DO UPDATE SET <column> = $2
OnConflictBlock(existing, column, v) == [existing EXCEPT ![column] = NotNull(v)]

\* INSERT INTO l2_blocks (l2_block_number, <column>) SELECT u.l2_block_number, $2
\* FROM UNNEST($1) ON CONFLICT (l2_block_number) DO UPDATE SET <column> = $2
UpsertBlocks(B, range, column, v) ==
    {r \in B : r.l2_block_number \notin range}
    \cup {OnConflictBlock(r, column, v) : r \in {x \in B : x.l2_block_number \in range}}
    \cup {ProposedBlock(b, column, v) :
            b \in {x \in range : \A r \in B : r.l2_block_number # x}}

\* Some block of the range already carried another value in the column.
Overwrites(B, range, column, v) ==
    \E r \in B : r.l2_block_number \in range /\ r[column] \notin {NULL, NotNull(v)}

\* One whole successful *_new_batch call: begin, the upsert, commit.
NewBatch(op, column, batch_start, batch_end, l1_block_number) ==
    LET range == BatchRange(batch_start, batch_end)
        v == AsI64(l1_block_number)
    IN
    /\ l2_blocks' = UpsertBlocks(l2_blocks, range, column, v)
    /\ ret' = [op |-> op, args |-> <<batch_start, batch_end, l1_block_number>>,
               val |-> "Ok", overwrote |-> Overwrites(l2_blocks, range, column, v)]
    /\ UNCHANGED <<withdrawals, txn, finalize_matched>>

\* committed_new_batch(conn, batch_start, batch_end, l1_block_number)
CommittedNewBatch(batch_start, batch_end, l1_block_number) ==
    NewBatch("committed_new_batch", CommitColumn,
             batch_start, batch_end, l1_block_number)

\* verified_new_batch(conn, batch_start, batch_end, l1_block_number)
VerifiedNewBatch(batch_start, batch_end, l1_block_number) ==
    NewBatch("verified_new_batch", VerifyColumn,
             batch_start, batch_end, l1_block_number)

\* executed_new_batch(conn, batch_start, batch_end, l1_block_number)
ExecutedNewBatch(batch_start, batch_end, l1_block_number) ==
    NewBatch("executed_new_batch", ExecuteColumn,
             batch_start, batch_end, l1_block_number)

\* SELECT l2_blocks.<column> FROM withdrawals JOIN l2_blocks
\* ON l2_blocks.l2_block_number = withdrawals.l2_block_number
\* WHERE withdrawals.tx_hash = $1
JoinedBlocks(W, B, tx_hash) ==
    {<<w, r>> \in W \X B :
        w.tx_hash = tx_hash /\ r.l2_block_number = w.l2_block_number}

\* .and_then(|r| r.<column>)
ColumnOption(r, column) == IF r[column] = NULL THEN None ELSE Some(r[column][1])

\* fetch_optional: no joined row gives None, otherwise the first row the
\* database produces, which the statement (no ORDER BY) does not determine.
WithdrawalPhaseInBlock(op, column, tx_hash) ==
    LET joined == JoinedBlocks(withdrawals, l2_blocks, tx_hash) IN
    /\ IF joined = {}
       THEN ret' = [op |-> op, args |-> tx_hash, val |-> None]
       ELSE \E j \in joined :
               ret' = [op |-> op, args |-> tx_hash, val |-> ColumnOption(j[2], column)]
    /\ UNCHANGED <<withdrawals, l2_blocks, txn, finalize_matched>>

\* withdrawal_committed_in_block(conn, tx_hash)
WithdrawalCommittedInBlock(tx_hash) ==
    WithdrawalPhaseInBlock("withdrawal_committed_in_block", CommitColumn, tx_hash)

\* (mutant) the verify query selecting the commit column.
WithdrawalVerifiedInBlockCommit(tx_hash) ==
    WithdrawalPhaseInBlock("withdrawal_verified_in_block", CommitColumn, tx_hash)

\* withdrawal_verified_in_block(conn, tx_hash)
WithdrawalVerifiedInBlock(tx_hash) ==
    WithdrawalPhaseInBlock("withdrawal_verified_in_block", VerifyColumn, tx_hash)

\* withdrawal_executed_in_block(conn, tx_hash)
WithdrawalExecutedInBlock(tx_hash) ==
    WithdrawalPhaseInBlock("withdrawal_executed_in_block", ExecuteColumn, tx_hash)

---------------------------------------------------------------------------
\* Watermark queries.

MaxOf(S) == CHOOSE x \in S : \A y \in S : y <= x

\* SELECT MAX(<column>): NULLs are ignored; over no value at all the
\* aggregate is NULL, which sqlx hands over as None.
SqlMax(values) ==
    LET present == {v[1] : v \in values \ {NULL}} IN
    IF present = {} THEN None ELSE Some(MaxOf(present))

\* .map(|max| max as u64)
MapAsU64(opt) == IF opt = None THEN None ELSE Some(AsU64(opt[1]))

\* SELECT MAX(l2_block_number) FROM withdrawals ... .max.map(|max| max as u64)
MaxL2BlockNumber(W) == MapAsU64(SqlMax({NotNull(w.l2_block_number) : w \in W}))

\* last_l2_block_seen(conn)
LastL2BlockSeen ==
    /\ ret' = [op |-> "last_l2_block_seen", val |-> MaxL2BlockNumber(withdrawals)]
    /\ UNCHANGED <<withdrawals, l2_blocks, txn, finalize_matched>>

\* (mutant) the aggregate taken over all three phase columns.
AnyPhaseValues(B) == {r[column] : r \in B, column \in PhaseColumns}

\* The values MAX(commit_l1_block_number) FROM l2_blocks aggregates.
CommitValues(B) == {r[CommitColumn] : r \in B}

\* last_l1_block_seen(conn)
LastL1BlockSeen ==
    /\ ret' = [op |-> "last_l1_block_seen",
               val |-> MapAsU64(SqlMax(CommitValues(l2_blocks)))]
    /\ UNCHANGED <<withdrawals, l2_blocks, txn, finalize_matched>>

---------------------------------------------------------------------------
\* A *_new_batch call step by step: conn.begin(), the upsert executed inside
\* the transaction, tx.commit().  Any of the three awaits can fail; the `?`
\* then returns early and dropping the open transaction rolls it back.

Idle == [pc |-> "idle"]

NoRet == [op |-> "none"]

\* Blocks whose rows a connection has written and not yet committed: the
\* database holds their row locks until the transaction ends.
LockedBy(c) ==
    IF txn[c].pc = "executed" THEN BatchRange(txn[c].args[1], txn[c].args[2]) ELSE {}

\* let mut tx = conn.begin().await?;
TxBegin(c, op, column, batch_start, batch_end, l1_block_number) ==
    /\ txn[c].pc = "idle"
    /\ txn' = [txn EXCEPT ![c] =
                  [pc |-> "begun", op |-> op, column |-> column,
                   args |-> <<batch_start, batch_end, l1_block_number>>]]
    /\ ret' = NoRet
    /\ UNCHANGED <<withdrawals, l2_blocks, finalize_matched>>

\* sqlx::query!(...).execute(&mut tx).await?: the statement waits while another
\* transaction holds a row of the range, then writes the whole range inside
\* this transaction; nothing of it is visible outside yet.
TxExecute(c) ==
    /\ txn[c].pc = "begun"
    /\ LET range == BatchRange(txn[c].args[1], txn[c].args[2]) IN
       /\ \A d \in Conns \ {c} : LockedBy(d) \cap range = {}
       /\ txn' = [txn EXCEPT ![c] =
                     [pc |-> "executed", op |-> txn[c].op, column |-> txn[c].column,
                      args |-> txn[c].args,
                      written |-> {r \in UpsertBlocks(l2_blocks, range, txn[c].column,
                                                      AsI64(txn[c].args[3])) :
                                      r.l2_block_number \in range}]]
    /\ UNCHANGED <<withdrawals, l2_blocks, ret, finalize_matched>>

\* What COMMIT makes visible: the rows the transaction wrote replace the
\* versions they were written over, all at once.
CommitRows(B, range, written) ==
    {r \in B : r.l2_block_number \notin range} \cup written

\* tx.commit().await?; Ok(())
TxCommit(c) ==
    /\ txn[c].pc = "executed"
    /\ l2_blocks' = CommitRows(l2_blocks, LockedBy(c), txn[c].written)
    /\ txn' = [txn EXCEPT ![c] = Idle]
    /\ ret' = [op |-> txn[c].op, args |-> txn[c].args, val |-> "Ok", at |-> "done"]
    /\ UNCHANGED <<withdrawals, finalize_matched>>

\* (mutant) no transaction around the statement: the rows written before the
\* failure stay.
RollbackRowsPartial(B, range, written) ==
    LET kept == {r \in written : \A x \in written :
                    r.l2_block_number <= x.l2_block_number}
    IN {r \in B : \A k \in kept : r.l2_block_number # k.l2_block_number} \cup kept

\* What a transaction dropped without commit leaves in the table: ROLLBACK.
RollbackRows(B, range, written) == B

\* An await failed (connection loss, timeout): Err is returned and the
\* transaction, if still open, is rolled back.
TxFail(c) ==
    /\ txn[c].pc \in {"begun", "executed"}
    /\ l2_blocks' = IF txn[c].pc = "executed"
                    THEN RollbackRows(l2_blocks, LockedBy(c), txn[c].written)
                    ELSE l2_blocks
    /\ txn' = [txn EXCEPT ![c] = Idle]
    /\ ret' = [op |-> txn[c].op, args |-> txn[c].args, val |-> "Err",
               at |-> IF txn[c].pc = "executed" THEN "commit" ELSE "execute"]
    /\ UNCHANGED <<withdrawals, finalize_matched>>

\* The connection is lost after the server has committed and before the
\* client hears of it: tx.commit() returns Err although the rows are in.
TxCommitUnacknowledged(c) ==
    /\ txn[c].pc = "executed"
    /\ l2_blocks' = CommitRows(l2_blocks, LockedBy(c), txn[c].written)
    /\ txn' = [txn EXCEPT ![c] = Idle]
    /\ ret' = [op |-> txn[c].op, args |-> txn[c].args, val |-> "Err", at |-> "done"]
    /\ UNCHANGED <<withdrawals, finalize_matched>>

---------------------------------------------------------------------------
\* Two *_new_batch calls on two connections.  The upsert takes the blocks of
\* its range in array order (ascending, lib.rs:42); each row it writes stays
\* locked until its transaction ends, and a row another transaction has
\* written and not committed makes the statement wait at that row.

\* Blocks whose rows a connection has written so far in its open transaction.
RowsLockedBy(c) ==
    IF "written" \in DOMAIN txn[c]
    THEN {r.l2_block_number : r \in txn[c].written}
    ELSE {}

RowsWrittenBy(c) == IF "written" \in DOMAIN txn[c] THEN txn[c].written ELSE {}

\* (mutant) no row locks: the statement never waits and works on the row
\* versions it read.
RowNeverLocked(c, b) == FALSE

\* Another connection's open transaction has written the row of block b.
RowIsLocked(c, b) == \E d \in Conns \ {c} : b \in RowsLockedBy(d)

\* The upsert inside the transaction handling the next block of its range:
\* once the row is free it inserts, or updates the latest committed version
\* (READ COMMITTED), and keeps the row locked.
TxExecuteRow(c) ==
    /\ txn[c].pc \in {"begun", "executing"}
    /\ LET range == BatchRange(txn[c].args[1], txn[c].args[2])
           todo == range \ RowsLockedBy(c)
           b == CHOOSE x \in todo : \A y \in todo : x <= y
           row == CHOOSE r \in UpsertBlocks(l2_blocks, {b}, txn[c].column,
                                            AsI64(txn[c].args[3])) :
                      r.l2_block_number = b
       IN
       /\ todo # {}
       /\ ~RowIsLocked(c, b)
       /\ txn' = [txn EXCEPT ![c] =
                     [pc |-> IF todo = {b} THEN "executed" ELSE "executing",
                      op |-> txn[c].op, column |-> txn[c].column,
                      args |-> txn[c].args,
                      written |-> RowsWrittenBy(c) \cup {row}]]
    /\ UNCHANGED <<withdrawals, l2_blocks, ret, finalize_matched>>

---------------------------------------------------------------------------
\* Calls that return Err.  add_withdrawals and update_withdrawals_to_finalized
\* run one statement on the connection (autocommit); a *_new_batch call runs
\* its statement in a transaction.  Either way a failed call has applied
\* nothing, or, when the connection is lost after the server has committed,
\* all of its statement.

Snapshot == [withdrawals |-> withdrawals, l2_blocks |-> l2_blocks]

MutatingOps ==
    {"add_withdrawals", "update_withdrawals_to_finalized",
     "committed_new_batch", "verified_new_batch", "executed_new_batch"}

\* The last call returned Err and its caller has not got it through yet.
Failed == ret.op \in MutatingOps /\ ret.val = "Err"

\* History of a failed call: its arguments and the store as the first of its
\* attempts found it.
FailedRet(op, args) ==
    [op |-> op, args |-> args, val |-> "Err",
     start |-> IF Failed /\ ret.op = op /\ ret.args = args /\ "start" \in DOMAIN ret
               THEN ret.start
               ELSE Snapshot]

\* add_withdrawals(conn, events) returning Err from .execute(conn).await?
AddWithdrawalsFailed(events, applied) ==
    /\ withdrawals' = IF applied
                      THEN InsertWithdrawals(withdrawals, UnnestEvents(events))
                      ELSE withdrawals
    /\ ret' = FailedRet("add_withdrawals", events)
    /\ UNCHANGED <<l2_blocks, txn, finalize_matched>>

\* update_withdrawals_to_finalized(conn, keys) returning Err from
\* .execute(conn).await?
UpdateWithdrawalsToFinalizedFailed(keys, applied) ==
    LET tx_hashes == [k \in DOMAIN keys |-> keys[k][1]]
        event_indices_in_tx == [k \in DOMAIN keys |-> keys[k][2]]
        u == UnnestKeys(tx_hashes, event_indices_in_tx)
    IN
    /\ withdrawals' = IF applied THEN SetFinalized(withdrawals, u) ELSE withdrawals
    /\ ret' = FailedRet("update_withdrawals_to_finalized", keys)
    /\ finalize_matched' =
          IF applied
          THEN finalize_matched \cup
                  {<<w.tx_hash, w.event_index_in_tx>> : w \in {x \in withdrawals :
                      \E k \in DOMAIN keys :
                          keys[k] = <<x.tx_hash, x.event_index_in_tx>>}}
          ELSE finalize_matched
    /\ UNCHANGED <<l2_blocks, txn>>

\* One whole *_new_batch call returning Err: begin, the upsert or commit
\* failed and the transaction rolled back, or the commit went unacknowledged.
NewBatchFailed(op, column, batch_start, batch_end, l1_block_number, applied) ==
    /\ l2_blocks' = IF applied
                    THEN UpsertBlocks(l2_blocks, BatchRange(batch_start, batch_end),
                                      column, AsI64(l1_block_number))
                    ELSE l2_blocks
    /\ ret' = FailedRet(op, <<batch_start, batch_end, l1_block_number>>)
    /\ UNCHANGED <<withdrawals, txn, finalize_matched>>

\* The caller's retry loop: after an Err the same call is made again with the
\* same arguments, and nothing else, until it returns Ok.
FirstOrRetry(op, args) == Failed => (ret.op = op /\ ret.args = args)

---------------------------------------------------------------------------
\* Initial state: an empty database, no call in progress.

Init ==
    /\ withdrawals = {}
    /\ l2_blocks = {}
    /\ txn = [c \in Conns |-> Idle]
    /\ ret = NoRet
    /\ finalize_matched = {}

L2Blocks == 1..MaxBlock

\* --- The withdrawal ledger under replayed, overlapping ingestion. ---

\* What a caller may attach to a key: block, token, amount, is_finalized.
Payloads ==
    {<<1, "t1", 100, FALSE>>, <<MaxBlock, "t2", 250, FALSE>>, <<MaxBlock, "t1", 100, TRUE>>}

Keys == TxHashes \X Indices

\* The keys the watcher reports events for; <<"h2", 1>> stays unknown to the
\* ledger, so a finalize call can name a key that matches no row.
LedgerKeys == {<<"h1", 0>>, <<"h1", 1>>, <<"h2", 0>>}

LedgerEvents ==
    {StoredWithdrawal(k[1], p[1], p[2], p[3], k[2], p[4]) :
        k \in LedgerKeys, p \in Payloads}

LedgerBatches == SeqsUpTo(LedgerEvents, MaxBatch)

KeyBatches == SeqsUpTo(Keys, MaxBatch)

\* Batches of events ingested, replayed and overlapping; finalization one key
\* at a time.
NextIngest ==
    \/ \E events \in LedgerBatches : AddWithdrawals(events)
    \/ \E k \in Keys : UpdateWithdrawalsToFinalized(<<k>>)

SpecIngest == Init /\ [][NextIngest]_vars

\* --- The finalizer's cycle: query the candidates, finalize a batch of keys. ---

NextFinalizer ==
    \/ \E e \in LedgerEvents : AddWithdrawals(<<e>>)
    \/ \E keys \in KeyBatches : UpdateWithdrawalsToFinalized(keys)
    \/ UnfinalizedWithdrawals
    \/ CommittedNewBatch(1, 1, 50)

SpecFinalizer == Init /\ [][NextFinalizer]_vars

\* --- The block lifecycle store: every phase, range and value. ---

BlockEvents ==
    {StoredWithdrawal("h1", 1, "t1", 100, 0, FALSE),
     StoredWithdrawal("h1", MaxBlock, "t2", 250, 1, FALSE)}

\* The database after add_withdrawals has stored the two events above.
InitPhases ==
    /\ withdrawals = InsertWithdrawals({}, UnnestEvents(
          <<StoredWithdrawal("h1", 1, "t1", 100, 0, FALSE),
            StoredWithdrawal("h1", MaxBlock, "t2", 250, 1, FALSE)>>))
    /\ l2_blocks = {}
    /\ txn = [c \in Conns |-> Idle]
    /\ ret = NoRet
    /\ finalize_matched = {}

\* The ranges the watcher reports: batch_start <= batch_end.
Batches == {<<s, e>> \in L2Blocks \X L2Blocks : s <= e}

NextPhases ==
    \/ \E b \in Batches, n \in L1Blocks : CommittedNewBatch(b[1], b[2], n)
    \/ \E b \in Batches, n \in L1Blocks : VerifiedNewBatch(b[1], b[2], n)
    \/ \E b \in Batches : ExecutedNewBatch(b[1], b[2], 51)

SpecPhases == InitPhases /\ [][NextPhases]_vars

\* --- The join of the ledger with the block lifecycle store. ---

NextJoin ==
    \/ \E e \in BlockEvents : AddWithdrawals(<<e>>)
    \/ \E b \in L2Blocks, n \in L1Blocks : CommittedNewBatch(b, b, n)
    \/ \E b \in L2Blocks : VerifiedNewBatch(b, b, 51)
    \/ \E b \in L2Blocks : ExecutedNewBatch(b, b, 51)
    \/ \E h \in TxHashes : WithdrawalCommittedInBlock(h)
    \/ \E h \in TxHashes : WithdrawalVerifiedInBlock(h)
    \/ \E h \in TxHashes : WithdrawalExecutedInBlock(h)

SpecJoin == Init /\ [][NextJoin]_vars

\* --- One *_new_batch call at a time, step by step, with failures. ---

NextTx ==
    \/ \E b \in Batches, n \in L1Blocks :
          TxBegin("c1", "committed_new_batch", CommitColumn, b[1], b[2], n)
    \/ \E b \in Batches :
          TxBegin("c1", "verified_new_batch", VerifyColumn, b[1], b[2], 51)
    \/ \E b \in Batches :
          TxBegin("c1", "executed_new_batch", ExecuteColumn, b[1], b[2], 51)
    \/ TxExecute("c1")
    \/ TxCommit("c1")
    \/ TxFail("c1")
    \/ TxCommitUnacknowledged("c1")

SpecTx == Init /\ [][NextTx]_vars

\* --- One caller that retries every failed call until it succeeds. ---

RetryKeys == {<<"h1", 0>>, <<"h1", 1>>}

NextRetry ==
    \/ \E events \in SeqsUpTo(BlockEvents, MaxBatch) :
          FirstOrRetry("add_withdrawals", events) /\ AddWithdrawals(events)
    \/ \E events \in SeqsUpTo(BlockEvents, MaxBatch), applied \in BOOLEAN :
          /\ FirstOrRetry("add_withdrawals", events)
          /\ AddWithdrawalsFailed(events, applied)
    \/ \E keys \in SeqsUpTo(RetryKeys, MaxBatch) :
          /\ FirstOrRetry("update_withdrawals_to_finalized", keys)
          /\ UpdateWithdrawalsToFinalized(keys)
    \/ \E keys \in SeqsUpTo(RetryKeys, MaxBatch), applied \in BOOLEAN :
          /\ FirstOrRetry("update_withdrawals_to_finalized", keys)
          /\ UpdateWithdrawalsToFinalizedFailed(keys, applied)
    \/ \E b \in Batches, n \in L1Blocks :
          /\ FirstOrRetry("committed_new_batch", <<b[1], b[2], n>>)
          /\ CommittedNewBatch(b[1], b[2], n)
    \/ \E b \in Batches, n \in L1Blocks, applied \in BOOLEAN :
          /\ FirstOrRetry("committed_new_batch", <<b[1], b[2], n>>)
          /\ NewBatchFailed("committed_new_batch", CommitColumn, b[1], b[2], n, applied)

SpecRetry == Init /\ [][NextRetry]_vars

\* --- A commit call and a verify call running concurrently. ---

NextConcurrent ==
    \/ \E b \in Batches, n \in L1Blocks :
          TxBegin("c1", "committed_new_batch", CommitColumn, b[1], b[2], n)
    \/ \E b \in Batches :
          TxBegin("c2", "verified_new_batch", VerifyColumn, b[1], b[2], 51)
    \/ \E c \in Conns : TxExecuteRow(c)
    \/ \E c \in Conns : TxCommit(c)

SpecConcurrent == Init /\ [][NextConcurrent]_vars

\* --- The watermarks over block numbers of the whole u64 range. ---

\* Block numbers on both sides of the largest i64.
WideBlocks == {1, MaxBlock, Pow2(I64Bits - 1) + 1}

WideEvents ==
    {StoredWithdrawal(k[1], b, "t1", 100, k[2], FALSE) :
        k \in RetryKeys, b \in WideBlocks}

NextWatermark ==
    \/ \E e \in WideEvents : AddWithdrawals(<<e>>)
    \/ \E k \in RetryKeys : UpdateWithdrawalsToFinalized(<<k>>)
    \/ \E b \in L2Blocks, n \in L1Blocks : CommittedNewBatch(b, b, n)
    \/ \E b \in L2Blocks : VerifiedNewBatch(b, b, 51)
    \/ LastL2BlockSeen

SpecWatermark == Init /\ [][NextWatermark]_vars

\* --- The L1 watermark over every phase of the block lifecycle store. ---

NextL1Seen ==
    \/ \E b \in Batches, n \in L1Blocks : CommittedNewBatch(b[1], b[2], n)
    \/ \E b \in Batches, n \in {49, 52} : VerifiedNewBatch(b[1], b[2], n)
    \/ \E b \in Batches : ExecutedNewBatch(b[1], b[2], 53)
    \/ LastL1BlockSeen

SpecL1Seen == Init /\ [][NextL1Seen]_vars

\* --- Every U256 amount through the ledger. ---

U256Values == 0..(Pow2(U256Bits) - 1)

\* One event per amount: the event at position v of its transaction carries
\* amount v, so the key of a stored row tells the amount it was ingested with.
AmountEvent(v) == StoredWithdrawal("h1", 1, "t1", v, v, FALSE)

NextAmounts ==
    \/ \E v \in U256Values : withdrawals = {} /\ AddWithdrawals(<<AmountEvent(v)>>)
    \/ \E w \in withdrawals :
          UpdateWithdrawalsToFinalized(<<<<w.tx_hash, w.event_index_in_tx>>>>)
    \/ UnfinalizedWithdrawals

SpecAmounts == Init /\ [][NextAmounts]_vars

\* --- A ledger holding an amount that is no U256. ---

\* Decimals the NUMERIC column can hold and U256 cannot: negative,
\* non-integral, too large.
BadAmounts ==
    {[digits |-> -1, scale |-> 0], [digits |-> 15, scale |-> 1],
     [digits |-> Pow2(U256Bits), scale |-> 0]}

\* The database with one such row, written by something other than
\* add_withdrawals.
InitCorrupt ==
    /\ \E d \in BadAmounts, f \in BOOLEAN :
          withdrawals = {[tx_hash |-> "h2", l2_block_number |-> 1, token |-> "t1",
                          amount |-> d, event_index_in_tx |-> 0, is_finalized |-> f]}
    /\ l2_blocks = {}
    /\ txn = [c \in Conns |-> Idle]
    /\ ret = NoRet
    /\ finalize_matched = {}

NextCorrupt ==
    \/ \E e \in BlockEvents : AddWithdrawals(<<e>>)
    \/ \E k \in LedgerKeys : UpdateWithdrawalsToFinalized(<<k>>)
    \/ UnfinalizedWithdrawals

SpecCorrupt == InitCorrupt /\ [][NextCorrupt]_vars

\* --- The finalizer draining a backlog: query, finalize what came back. ---

\* A ledger of up to MaxBacklog rows in any blocks, any of them finalized.
InitDrain ==
    /\ \E n \in 0..MaxBacklog :
          \E blocks \in [1..n -> L2Blocks], finalized \in [1..n -> BOOLEAN] :
             withdrawals = {[tx_hash |-> "h1", l2_block_number |-> blocks[i],
                             token |-> "t1", amount |-> U256ToBigDecimal(100),
                             event_index_in_tx |-> i,
                             is_finalized |-> finalized[i]] : i \in 1..n}
    /\ l2_blocks = {}
    /\ txn = [c \in Conns |-> Idle]
    /\ ret = NoRet
    /\ finalize_matched = {}

\* The caller's query at the start of a cycle.
DrainQuery ==
    /\ ret.op # "unfinalized_withdrawals"
    /\ UnfinalizedWithdrawals

\* The caller finalizing the keys of every record the query returned; an
\* empty result ends the loop.
DrainFinalize ==
    /\ ret.op = "unfinalized_withdrawals"
    /\ "val" \in DOMAIN ret
    /\ ret.val # << >>
    /\ UpdateWithdrawalsToFinalized(
          [k \in DOMAIN ret.val |->
              <<ret.val[k].event.tx_hash, ret.val[k].index_in_tx>>])

NextDrain == DrainQuery \/ DrainFinalize

SpecDrain == InitDrain /\ [][NextDrain]_vars

---------------------------------------------------------------------------
\* Properties of the withdrawal ledger.

KeyOf(w) == <<w.tx_hash, w.event_index_in_tx>>

\* C1: add_withdrawals never changes a stored row: a proposed row whose
\* (tx_hash, event_index_in_tx) is taken is dropped and the first-inserted
\* amount, token, l2_block_number and is_finalized stay, the call returns Ok,
\* and running the same batch a second time changes nothing more.
C1_IngestKeepsFirstAndIsIdempotent ==
    /\ \A events \in LedgerBatches :
          LET rows == UnnestEvents(events)
              once == InsertWithdrawals(withdrawals, rows)
          IN /\ withdrawals \subseteq once
             /\ \A w \in once : \A x \in withdrawals : SameKey(w, x) => w = x
             /\ InsertWithdrawals(once, rows) = once
    /\ ret.op = "add_withdrawals" =>
          /\ ret.val = "Ok"
          /\ \A k \in DOMAIN ret.skipped :
                \E w \in withdrawals : SameKey(w, ret.skipped[k])

\* C1 witness: an ingest has just skipped a row whose amount differs from the
\* amount stored under the same key.
C1_Witness ==
    /\ ret.op = "add_withdrawals"
    /\ ret.skipped # None
    /\ \E w \in withdrawals :
          /\ SameKey(w, ret.skipped[1])
          /\ w.amount # ret.skipped[1].amount
          /\ w.token # ret.skipped[1].token

\* C4: no step takes a finalized withdrawal back to is_finalized = false.
C4_FinalizedNeverReverts ==
    [][\A w \in withdrawals : w.is_finalized =>
          \E x \in withdrawals' : SameKey(x, w) /\ x.is_finalized]_vars

\* C4 witness: a row that a finalize call set to finalized has just been
\* re-ingested with is_finalized = false, and is still finalized.
C4_Witness ==
    /\ ret.op = "add_withdrawals"
    /\ ret.skipped # None
    /\ \E w \in withdrawals :
          /\ SameKey(w, ret.skipped[1])
          /\ ~ret.skipped[1].is_finalized
          /\ w.is_finalized
          /\ KeyOf(w) \in finalize_matched

\* C5: every row a step adds to the ledger has is_finalized = false.
C5_NewRowsAreUnfinalized ==
    [][\A w \in withdrawals' :
          (\A x \in withdrawals : ~SameKey(x, w)) => ~w.is_finalized]_vars

\* The stored row a returned StoredWithdrawal stands for.
ReturnedFrom(sw, w) ==
    /\ sw.event.tx_hash = w.tx_hash
    /\ sw.index_in_tx = w.event_index_in_tx
    /\ sw.event.block_number = w.l2_block_number
    /\ sw.event.token = w.token
    /\ sw.event.amount = w.amount.digits
    /\ sw.is_finalized = w.is_finalized

C7_FinalizedNeverPending ==
    ret.op = "unfinalized_withdrawals" =>
        \A k \in DOMAIN ret.val :
            <<ret.val[k].event.tx_hash, ret.val[k].index_in_tx>> \notin finalize_matched

\* C7 witness: a finalized key exists and the query still returns other rows.
C7_Witness ==
    /\ ret.op = "unfinalized_withdrawals"
    /\ ret.val # << >>
    /\ finalize_matched # {}
    /\ \E w \in withdrawals : KeyOf(w) \in finalize_matched

\* C8: an update_withdrawals_to_finalized step sets is_finalized on exactly
\* the rows whose (tx_hash, event_index_in_tx) pair is among the keys, adds
\* and removes no row, returns Ok and leaves l2_blocks alone.
C8_FinalizeExactlyTheKeys ==
    [][ret'.op = "update_withdrawals_to_finalized" =>
          /\ withdrawals' =
                {IF KeyOf(w) \in Range(ret'.args)
                 THEN [w EXCEPT !.is_finalized = TRUE] ELSE w : w \in withdrawals}
          /\ l2_blocks' = l2_blocks
          /\ ret'.val = "Ok"]_vars

\* C8 witness: the call named a stored key and an unknown key; the named row
\* is finalized while rows sharing only its tx_hash or only its index are
\* not, and l2_blocks has a row.
C8_Witness ==
    /\ ret.op = "update_withdrawals_to_finalized"
    /\ Range(ret.args) = {<<"h1", 0>>, <<"h2", 1>>}
    /\ \E w \in withdrawals : KeyOf(w) = <<"h1", 0>> /\ w.is_finalized
    /\ \E w \in withdrawals : KeyOf(w) = <<"h1", 1>> /\ ~w.is_finalized
    /\ \E w \in withdrawals : KeyOf(w) = <<"h2", 0>> /\ ~w.is_finalized
    /\ \A w \in withdrawals : KeyOf(w) # <<"h2", 1>>
    /\ l2_blocks # {}

---------------------------------------------------------------------------
\* Properties of the block lifecycle store.

BatchOps == {"committed_new_batch", "verified_new_batch", "executed_new_batch"}

QueryOps == {"withdrawal_committed_in_block", "withdrawal_verified_in_block",
             "withdrawal_executed_in_block"}

ColumnOf(op) ==
    CASE op \in {"committed_new_batch", "withdrawal_committed_in_block"} -> CommitColumn
      [] op \in {"verified_new_batch", "withdrawal_verified_in_block"} -> VerifyColumn
      [] op \in {"executed_new_batch", "withdrawal_executed_in_block"} -> ExecuteColumn

\* C2: after a *_new_batch call every block of the range has one row whose
\* column for that phase is the call's value, whatever it was before (larger
\* or smaller), and the same call made again changes no row.
C2_PhaseOverwriteIdempotent ==
    [][ret'.op \in BatchOps =>
          LET range == BatchRange(ret'.args[1], ret'.args[2])
              column == ColumnOf(ret'.op)
          IN /\ \A b \in range : \E r \in l2_blocks' :
                    /\ r.l2_block_number = b
                    /\ r[column] = NotNull(ret'.args[3])
             /\ \A r, x \in l2_blocks' :
                    r.l2_block_number = x.l2_block_number => r = x
             /\ (ret.op = ret'.op /\ ret.args = ret'.args) => l2_blocks' = l2_blocks]_vars

\* C2 witness: a commit over the whole range has replaced a larger value by a
\* smaller one.
C2_Witness ==
    /\ ret.op = "committed_new_batch"
    /\ ret.args = <<1, MaxBlock, 50>>
    /\ ret.overwrote
    /\ \A b \in L2Blocks : \E r \in l2_blocks :
          r.l2_block_number = b /\ r[CommitColumn] = NotNull(50)

\* C3: a *_new_batch call changes nothing but its phase's column on the
\* blocks of its range: rows outside the range and the ledger stay as they
\* were, an existing row of the range keeps its two other columns, a row the
\* call creates has them NULL.
C3_PhaseFrame ==
    [][ret'.op \in BatchOps =>
          LET range == BatchRange(ret'.args[1], ret'.args[2])
              others == PhaseColumns \ {ColumnOf(ret'.op)}
          IN /\ withdrawals' = withdrawals
             /\ \A r \in l2_blocks : r.l2_block_number \notin range => r \in l2_blocks'
             /\ \A r \in l2_blocks' : r.l2_block_number \notin range => r \in l2_blocks
             /\ \A r \in l2_blocks : r.l2_block_number \in range =>
                    \E x \in l2_blocks' :
                        /\ x.l2_block_number = r.l2_block_number
                        /\ \A c \in others : x[c] = r[c]
             /\ \A x \in l2_blocks' :
                    (/\ x.l2_block_number \in range
                     /\ \A r \in l2_blocks : r.l2_block_number # x.l2_block_number)
                    => \A c \in others : x[c] = NULL]_vars

\* C3 witness: a verify over the whole range, after which one block still
\* has its commit value and another has nothing but the verify value, with a
\* withdrawal in the ledger.
C3_Witness ==
    /\ ret.op = "verified_new_batch"
    /\ ret.args[1] = 1 /\ ret.args[2] = MaxBlock
    /\ withdrawals # {}
    /\ \E r \in l2_blocks : r[CommitColumn] # NULL /\ r[VerifyColumn] # NULL
    /\ \E r \in l2_blocks :
          r[CommitColumn] = NULL /\ r[ExecuteColumn] = NULL /\ r[VerifyColumn] # NULL

\* C9: withdrawal_<phase>_in_block(tx_hash) returns a value only if it is
\* that phase's column of the l2_blocks row of a withdrawal with that tx_hash;
\* it returns None when no withdrawal has the tx_hash, when none of them has
\* an l2_blocks row, or when the column is NULL; and when the withdrawals of
\* the tx_hash lie in one L2 block it returns exactly that block's column.
C9_PhaseQuery ==
    ret.op \in QueryOps =>
        LET column == ColumnOf(ret.op)
            ws == {w \in withdrawals : w.tx_hash = ret.args}
            cells == {r[column] : r \in {x \in l2_blocks :
                         \E w \in ws : x.l2_block_number = w.l2_block_number}}
        IN /\ ret.val # None => NotNull(ret.val[1]) \in cells
           /\ (ws = {} \/ cells \subseteq {NULL}) => ret.val = None
           /\ Cardinality({w.l2_block_number : w \in ws}) = 1 =>
                 \/ cells = {} /\ ret.val = None
                 \/ cells = {NULL} /\ ret.val = None
                 \/ \E v \in L1Blocks : cells = {NotNull(v)} /\ ret.val = Some(v)

\* C9 witness: the block of the withdrawal has its commit recorded and its
\* verify not, and the verify query has returned None.
C9_Witness ==
    /\ ret.op = "withdrawal_verified_in_block"
    /\ ret.val = None
    /\ \E w \in withdrawals : \E r \in l2_blocks :
          /\ w.tx_hash = ret.args
          /\ r.l2_block_number = w.l2_block_number
          /\ r[CommitColumn] = NotNull(50)
          /\ r[VerifyColumn] = NULL
    /\ Cardinality({w \in withdrawals : w.tx_hash = ret.args}) = 1

\* C10: l2_blocks, which is all any other caller can read, changes only by one
\* call's whole range at once, at the step that ends the call; a call that
\* returns Err has written its whole range or nothing.
C10_BatchAllOrNothing ==
    [][\/ l2_blocks' = l2_blocks
       \/ \E c \in Conns :
             /\ txn[c].pc = "executed"
             /\ txn'[c].pc = "idle"
             /\ l2_blocks' = UpsertBlocks(l2_blocks,
                                BatchRange(txn[c].args[1], txn[c].args[2]),
                                txn[c].column, AsI64(txn[c].args[3]))]_vars

\* C10 witness: a commit over the whole range failed at tx.commit() and the
\* rows of the range still carry the other value.
C10_Witness ==
    /\ ret.op = "committed_new_batch"
    /\ ret.val = "Err"
    /\ ret.at = "commit"
    /\ ret.args = <<1, MaxBlock, 51>>
    /\ \A b \in L2Blocks : \E r \in l2_blocks :
          r.l2_block_number = b /\ r[CommitColumn] = NotNull(50)

---------------------------------------------------------------------------
\* Properties of failed and retried calls.

\* The store one successful call of op(args) leaves when it starts from S.
SingleCall(op, args, S) ==
    CASE op = "add_withdrawals" ->
            [S EXCEPT !.withdrawals = InsertWithdrawals(@, UnnestEvents(args))]
      [] op = "update_withdrawals_to_finalized" ->
            [S EXCEPT !.withdrawals =
                SetFinalized(@, UnnestKeys([k \in DOMAIN args |-> args[k][1]],
                                           [k \in DOMAIN args |-> args[k][2]]))]
      [] op \in BatchOps ->
            [S EXCEPT !.l2_blocks =
                UpsertBlocks(@, BatchRange(args[1], args[2]), ColumnOf(op),
                             AsI64(args[3]))]

\* C11: when a call that has failed, however often, is retried with the same
\* arguments and succeeds, the store is what one successful call would have
\* left from the state the first attempt started in.
C11_RetryIsSafe ==
    [][(Failed /\ ret'.val = "Ok") =>
          [withdrawals |-> withdrawals', l2_blocks |-> l2_blocks'] =
              SingleCall(ret.op, ret.args, ret.start)]_vars

\* C11 witness: a call is being retried after a failure whose statement the
\* server had applied, so the retry runs on a store its first attempt did not
\* start from.
C11_Witness ==
    /\ Failed
    /\ Snapshot # ret.start
    /\ Snapshot = SingleCall(ret.op, ret.args, ret.start)

---------------------------------------------------------------------------
\* Properties of concurrent *_new_batch calls.

RowsOf(B, b) == {r \in B : r.l2_block_number = b}

\* C12: when one of two concurrent *_new_batch calls commits, every block of
\* its range has one row carrying the call's value in the call's column and,
\* in the other columns, what the latest committed row carried: a phase the
\* other call has recorded is neither lost nor nulled, and rows outside the
\* range are untouched.
C12_ConcurrentPhasesBothKept ==
    [][\A c \in Conns :
          (txn[c].pc = "executed" /\ txn'[c] = Idle /\ ret'.val = "Ok") =>
             \A b \in {r.l2_block_number : r \in l2_blocks \cup l2_blocks'} :
                LET old == RowsOf(l2_blocks, b)
                    new == RowsOf(l2_blocks', b)
                IN
                /\ Cardinality(new) = 1
                /\ b \notin LockedBy(c) => new = old
                /\ b \in LockedBy(c) =>
                      \A r \in new :
                         /\ r[txn[c].column] = NotNull(AsI64(txn[c].args[3]))
                         /\ \A col \in PhaseColumns \ {txn[c].column} :
                               \A o \in old : r[col] = o[col]]_vars

\* C12 witness: the commit call has committed while the verify call, begun
\* before that, is in the middle of its range; the row the verify call has
\* written for a block of the overlap carries both phases.
C12_Witness ==
    /\ ret.op = "committed_new_batch"
    /\ ret.val = "Ok"
    /\ txn["c2"].pc = "executing"
    /\ \E r \in txn["c2"].written :
          /\ r.l2_block_number \in BatchRange(ret.args[1], ret.args[2])
          /\ r[CommitColumn] = NotNull(AsI64(ret.args[3]))
          /\ r[VerifyColumn] = NotNull(51)

---------------------------------------------------------------------------
\* Properties of the candidates query against the block lifecycle store.

\* C13: every withdrawal unfinalized_withdrawals returns is of an L2 block
\* that has a row in l2_blocks.
C13_CandidatesHaveLifecycleRow ==
    ret.op = "unfinalized_withdrawals" =>
        \A k \in DOMAIN ret.val :
            \E r \in l2_blocks :
                r.l2_block_number = AsI64(ret.val[k].event.block_number)

---------------------------------------------------------------------------
\* Properties of the watermark queries.

\* The block number the watcher reported for a stored row.
ReportedBlock(w) == AsU64(w.l2_block_number)

\* C14: last_l2_block_seen returns None on an empty ledger and otherwise the
\* largest block number any stored withdrawal was reported with, finalized or
\* not, over the whole u64 range.
C14_LastL2BlockIsMax ==
    ret.op = "last_l2_block_seen" =>
        ret.val = IF withdrawals = {} THEN None
                  ELSE Some(MaxOf({ReportedBlock(w) : w \in withdrawals}))

\* C15: last_l1_block_seen returns the largest commit_l1_block_number of the
\* rows that have one, and None when no row has one (no rows, or rows with
\* only verify or execute recorded); verify and execute values play no part.
C15_LastL1BlockIsMaxCommit ==
    ret.op = "last_l1_block_seen" =>
        LET committed == {r \in l2_blocks : r[CommitColumn] # NULL} IN
        IF committed = {}
        THEN ret.val = None
        ELSE /\ \E r \in committed : ret.val = Some(r[CommitColumn][1])
             /\ \A r \in committed : r[CommitColumn][1] <= ret.val[1]

\* C15 witness: the query has answered with a commit value while a row holds
\* larger verify and execute values, and another row has no commit value.
C15_Witness ==
    /\ ret.op = "last_l1_block_seen"
    /\ ret.val # None
    /\ \E r \in l2_blocks :
          /\ r[VerifyColumn] # NULL /\ r[VerifyColumn][1] > ret.val[1]
          /\ r[ExecuteColumn] # NULL /\ r[ExecuteColumn][1] > ret.val[1]
    /\ \E r \in l2_blocks : r[CommitColumn] = NULL

---------------------------------------------------------------------------
\* Properties of stored withdrawal rows over all calls.

\* C16: a stored withdrawal row is never deleted and its tx_hash,
\* l2_block_number, token, amount and event_index_in_tx never change; only
\* is_finalized changes, and only in an update_withdrawals_to_finalized step.
C16_RowsAreImmutable ==
    [][\A w \in withdrawals :
          \E x \in withdrawals' :
             /\ x.tx_hash = w.tx_hash
             /\ x.event_index_in_tx = w.event_index_in_tx
             /\ x.l2_block_number = w.l2_block_number
             /\ x.token = w.token
             /\ x.amount = w.amount
             /\ x.is_finalized # w.is_finalized =>
                   ret'.op = "update_withdrawals_to_finalized"
             /\ \A y \in withdrawals' : SameKey(y, x) => y = x]_vars

\* C16 witness: a *_new_batch call has just recorded the block of a row that
\* a finalize call had finalized, with an unfinalized row stored beside it.
C16_Witness ==
    /\ ret.op = "committed_new_batch"
    /\ \E w \in withdrawals :
          /\ w.is_finalized
          /\ KeyOf(w) \in finalize_matched
          /\ \E r \in l2_blocks : r.l2_block_number = w.l2_block_number
    /\ \E w \in withdrawals : ~w.is_finalized

---------------------------------------------------------------------------
\* Properties of amounts.

ReturnedErr(e) == "err" \in DOMAIN ret /\ ret.err = e

\* C18: when an unfinalized row within the cap holds an amount that is no
\* U256, unfinalized_withdrawals returns Err(ConversionError).
C18_BadAmountIsConversionError ==
    (/\ ret.op = "unfinalized_withdrawals"
     /\ Cardinality(WhereNotFinalized(withdrawals)) <= Limit
     /\ \E w \in WhereNotFinalized(withdrawals) : ~IsU256(w.amount))
    => ReturnedErr(ConversionError)

---------------------------------------------------------------------------
\* Properties of the drain loop.

CeilDiv(n, d) == (n + d - 1) \div d

\* Cycles a backlog still takes at the cap: ceil(#unfinalized / Limit).
CyclesLeft(W) == CeilDiv(Cardinality({w \in W : ~w.is_finalized}), Limit)

\* C19: every query-then-finalize cycle of the drain loop lowers the number
\* of cycles the backlog still takes, ceil(#unfinalized / Limit), by at least
\* one, and the query returns nothing exactly when that number is zero: a
\* backlog of n is drained within ceil(n / Limit) cycles.
C19_DrainWithinCeilCycles ==
    [][/\ (ret.op = "unfinalized_withdrawals" /\
           ret'.op = "update_withdrawals_to_finalized") =>
              CyclesLeft(withdrawals') <= CyclesLeft(withdrawals) - 1
       /\ ret'.op = "unfinalized_withdrawals" =>
              (ret'.val = << >> <=> CyclesLeft(withdrawals') = 0)]_vars

\* C19 witness: the query has come back empty after the loop finalized more
\* rows than one cycle can take.
C19_Witness ==
    /\ ret.op = "unfinalized_withdrawals"
    /\ ret.val = << >>
    /\ Cardinality(finalize_matched) > Limit

---------------------------------------------------------------------------
\* Properties of the watermark over time.

\* Option<u64> ordered with None lowest.
OptionLeq(a, b) == a = None \/ (b # None /\ a[1] <= b[1])

\* C20: what last_l2_block_seen returns never decreases over any step of
\* add_withdrawals, update_withdrawals_to_finalized and *_new_batch.
C20_L2WatermarkNeverDecreases ==
    [][OptionLeq(MaxL2BlockNumber(withdrawals), MaxL2BlockNumber(withdrawals'))]_vars

====
